---- MODULE Spec2Model ----
(***************************************************************************)
(* State-machine model of the Crazyradio host driver (src/src/lib.rs).     *)
(*                                                                         *)
(* The driver object holds a settings cache (channel, address, datarate)   *)
(* and a cache_settings flag.  Every method is one action; the USB         *)
(* transport is the environment: each transfer a method attempts may       *)
(* succeed or fail, and the bytes of an inbound bulk read are chosen by    *)
(* the dongle.                                                             *)
(***************************************************************************)
EXTENDS Integers, Sequences, FiniteSets, TLC

VARIABLES
    cache_settings,   \* Crazyradio.cache_settings
    channel,          \* Crazyradio.channel  (settings cache)
    address,          \* Crazyradio.address  (settings cache)
    datarate,         \* Crazyradio.datarate (settings cache)
    dongle,           \* registers of the dongle: value of the last successful write of each
    instance,         \* "open", "consumed" (moved into launch_bootloader) or "unwound" (a panic)
    overflow_checks,  \* build profile: TRUE = arithmetic overflow panics, FALSE = it wraps
    last,             \* the most recent call: [op, args, res, ret]
    xfers,            \* the transfers attempted by the most recent call, in order
    arg,              \* inputs drawn at Init (specifications of a single call)
    bridge            \* an *_async call: the awaiting caller, the worker thread, the channel

vars == <<cache_settings, channel, address, datarate, dongle, instance,
          overflow_checks, last, xfers, arg, bridge>>

----------------------------------------------------------------------------
(* Bounds of the model *)

\* Channel numbers used as inputs are 0..MaxCh
MaxCh == 2
\* set_ard_time inputs are the multiples of DelayGrain ms up to
\* DelayGrain * MaxDelaySteps ms, and the neighbours of the range limits
DelayGrain == 125
MaxDelaySteps == 33
\* ack buffers handed to send_packet have 0..MaxBuf bytes
MaxBuf == 34
\* set_arc inputs are 0..MaxArc, and one count above the range of u16
MaxArc == 17
\* the USB device list holds at most MaxBus devices
MaxBus == 3
\* device versions have a major number of 0..MaxMajor
MaxMajor == 1

----------------------------------------------------------------------------
(* Program constants *)

\* enum UsbCommand
SetRadioChannel == 1
SetRadioAddress == 2
SetDataRate == 3
SetRadioPower == 4
SetRadioArd == 5
SetRadioArc == 6
AckEnable == 16
SetContCarrier == 32
LaunchBootloader == 255

\* enum Datarate
Dr250K == 0
Dr1M == 1
Dr2M == 2

\* enum Power
Pm18dBm == 0
Pm12dBm == 1
Pm6dBm == 2
P0dBm == 3

\* Channel::from_number accepts channel < ChannelLimit
ChannelLimit == 126
\* let mut received_data = [0u8; 33]
RxBufLen == 33
\* the part of ack_data send_packet may write
AckMax == 32
\* set_ard_time: delay <= Duration::from_millis(4000), steps of 250 ms
ArdMaxMs == 4000
ArdStepMs == 250

\* the largest nbytes: u8
U8Max == 255
\* set_ard_bytes: nbytes <= 32; set_arc: arc <= 15
ArdMaxBytes == 32
ArcMax == 15
\* the flag of the ARD-by-length encoding
ArdBytesFlag == 128

\* minor and sub_minor of a device version are one hexadecimal digit each
VersionDigitMax == 15
\* open_generic: version < 0.5, in hundredths
MinVersionHundredths == 50

U16Modulus == 2 ^ 16
\* usize is 64 bits wide on the hosts the driver runs on; TLC's integers are
\* 32 bits wide, so the model wraps at the narrowest width Rust gives usize.
\* The wrapped value of 0 - 1 exceeds every buffer length for every width.
UsizeModulus == 2 ^ 16

DefaultAddress == <<231, 231, 231, 231, 231>>

----------------------------------------------------------------------------
(* Input sets *)

Channels == 0..MaxCh
Datarates == {Dr250K, Dr1M, Dr2M}
Powers == {Pm18dBm, Pm12dBm, Pm6dBm, P0dBm}
Addresses == {DefaultAddress, <<1, 2, 3, 4, 5>>}
Packets == {<<255>>}
Delays == {DelayGrain * k : k \in 0..MaxDelaySteps}
              \cup {ArdStepMs - 1, ArdStepMs + 1, ArdMaxMs + 1}

\* an inbound frame of len bytes: the status byte, then payload bytes 1, 2, ...
Frame(status, len) == [i \in 1..len |-> IF i = 1 THEN status ELSE i - 1]
\* an ack buffer of n bytes as the caller hands it in
FreshBuffer(n) == [i \in 1..n |-> 170]
\* the frames a probed channel may answer with
ProbeFrames == {Frame(0, 0), Frame(16, 1), Frame(81, 3)}
\* the frames used where every probe of a scan is answered alike
UniformFrames == {Frame(0, 0), Frame(81, 3)}

----------------------------------------------------------------------------
(* Helpers *)

Min(a, b) == IF a <= b THEN a ELSE b

\* bitwise and of two naturals
RECURSIVE BitAnd(_, _)
BitAnd(a, b) ==
    IF a = 0 \/ b = 0 THEN 0
    ELSE (a % 2) * (b % 2) + 2 * BitAnd(a \div 2, b \div 2)

\* bitwise or of two naturals
RECURSIVE BitOr(_, _)
BitOr(a, b) ==
    IF a = 0 THEN b
    ELSE IF b = 0 THEN a
    ELSE (IF a % 2 = 1 \/ b % 2 = 1 THEN 1 ELSE 0) + 2 * BitOr(a \div 2, b \div 2)

\* the effect of an executed vendor request on the dongle's registers
DongleApply(d, request, value, data) ==
    CASE request = SetRadioChannel  -> [d EXCEPT !.channel = value]
      [] request = SetRadioAddress  -> [d EXCEPT !.address = data]
      [] request = SetDataRate      -> [d EXCEPT !.datarate = value]
      [] request = SetRadioPower    -> [d EXCEPT !.power = value]
      [] request = SetRadioArd      -> [d EXCEPT !.ard = value]
      [] request = SetRadioArc      -> [d EXCEPT !.arc = value]
      [] request = AckEnable        -> [d EXCEPT !.ack_enable = value]
      [] request = SetContCarrier   -> [d EXCEPT !.cont_carrier = value]
      [] request = LaunchBootloader -> [d EXCEPT !.bootloader = TRUE]
      [] OTHER -> d

\* device_handle.write_control(0x40, request, value, 0, data, 1 s)?
\* The transfer is the (Len(log) + 1)-th of the call; it fails iff that
\* ordinal is failAt (failAt = 0: no transfer of the call fails).
WriteControl(cr, request, value, data, failAt) ==
    LET ok == (Len(cr.log) + 1) # failAt
    IN [cr EXCEPT
          !.log = Append(@, [ep |-> "control", request |-> request,
                             value |-> value, data |-> data, ok |-> ok]),
          !.res = IF ok THEN "Ok" ELSE "UsbError",
          !.dongle = IF ok THEN DongleApply(@, request, value, data) ELSE @]

\* the `?` operator: the method goes on only while its result is Ok
IsOk(cr) == cr.res = "Ok"

----------------------------------------------------------------------------
(* Channel *)

\* from_number accepting 126 as well
from_number_inclusive(n) ==
    IF n <= ChannelLimit
    THEN [res |-> "Ok", ch |-> <<n>>]
    ELSE [res |-> "InvalidArgument", ch |-> <<>>]

\* Channel::from_number(channel: u8); ch holds the Channel of an Ok
from_number(n) ==
    IF n < ChannelLimit
    THEN [res |-> "Ok", ch |-> <<n>>]
    ELSE [res |-> "InvalidArgument", ch |-> <<>>]

\* Channel::deserialize of the number n: a u8 is read, then from_number maps
\* it; either error becomes an error of the deserializer
deserialize(n) ==
    IF n > U8Max
    THEN [res |-> "DeError", ch |-> <<>>]
    ELSE LET r == from_number(n)
         IN IF r.res = "Ok" THEN r ELSE [res |-> "DeError", ch |-> <<>>]

----------------------------------------------------------------------------
(* Methods of Crazyradio, as functions of the driver record cr *)

\* set_channel updating the cache before the transfer's outcome is known
set_channel_cache_first(cr, ch, failAt) ==
    IF ~cr.cache_settings \/ cr.channel # ch
    THEN [WriteControl(cr, SetRadioChannel, ch, <<>>, failAt) EXCEPT !.channel = ch]
    ELSE [cr EXCEPT !.res = "Ok"]

\* set_channel comparing with the cache whether caching is enabled or not
set_channel_always_cached(cr, ch, failAt) ==
    IF cr.channel # ch
    THEN LET w == WriteControl(cr, SetRadioChannel, ch, <<>>, failAt)
         IN IF w.res = "Ok" THEN [w EXCEPT !.channel = ch] ELSE w
    ELSE [cr EXCEPT !.res = "Ok"]

set_channel(cr, ch, failAt) ==
    IF ~cr.cache_settings \/ cr.channel # ch
    THEN LET w == WriteControl(cr, SetRadioChannel, ch, <<>>, failAt)
         IN IF w.res = "Ok" THEN [w EXCEPT !.channel = ch] ELSE w
    ELSE [cr EXCEPT !.res = "Ok"]

set_datarate(cr, dr, failAt) ==
    IF ~cr.cache_settings \/ cr.datarate # dr
    THEN LET w == WriteControl(cr, SetDataRate, dr, <<>>, failAt)
         IN IF w.res = "Ok" THEN [w EXCEPT !.datarate = dr] ELSE w
    ELSE [cr EXCEPT !.res = "Ok"]

set_address(cr, addr, failAt) ==
    IF ~cr.cache_settings \/ cr.address # addr
    THEN LET w == WriteControl(cr, SetRadioAddress, 0, addr, failAt)
         IN IF w.res = "Ok" THEN [w EXCEPT !.address = addr] ELSE w
    ELSE [cr EXCEPT !.res = "Ok"]

set_power(cr, power, failAt) ==
    WriteControl(cr, SetRadioPower, power, <<>>, failAt)

set_ard_bytes(cr, nbytes, failAt) ==
    IF nbytes <= 32
    THEN WriteControl(cr, SetRadioArd, BitOr(128, nbytes), <<>>, failAt)
    ELSE [cr EXCEPT !.res = "InvalidArgument"]

\* set_arc narrowing the count to u16 before the range check
set_arc_cast_first(cr, arc, failAt) ==
    IF arc % U16Modulus <= 15
    THEN WriteControl(cr, SetRadioArc, arc % U16Modulus, <<>>, failAt)
    ELSE [cr EXCEPT !.res = "InvalidArgument"]

set_arc(cr, arc, failAt) ==
    IF arc <= 15
    THEN WriteControl(cr, SetRadioArc, arc, <<>>, failAt)
    ELSE [cr EXCEPT !.res = "InvalidArgument"]

set_ack_enable(cr, ack_enable, failAt) ==
    WriteControl(cr, AckEnable, IF ack_enable THEN 1 ELSE 0, <<>>, failAt)

set_cont_carrier(cr, enable, failAt) ==
    WriteControl(cr, SetContCarrier, IF enable THEN 1 ELSE 0, <<>>, failAt)

\* the k-th statement of reset's sequence of writes
ResetStep(cr, k, failAt) ==
    CASE k = 1 -> set_datarate(cr, Dr2M, failAt)
      [] k = 2 -> set_channel(cr, 2, failAt)
      [] k = 3 -> set_cont_carrier(cr, FALSE, failAt)
      [] k = 4 -> set_address(cr, DefaultAddress, failAt)
      [] k = 5 -> set_power(cr, P0dBm, failAt)
      [] k = 6 -> set_arc(cr, 3, failAt)
      [] k = 7 -> set_ard_bytes(cr, 32, failAt)
      [] k = 8 -> set_ack_enable(cr, TRUE, failAt)

\* the statements k..8 of that sequence, each followed by `?`; c is the
\* instance as statement k left it, the value the later statements start from
RECURSIVE ResetSteps(_, _, _)
ResetSteps(cr, k, failAt) ==
    IF k > 8 \/ ~IsOk(cr) THEN cr
    ELSE CHOOSE done \in {ResetSteps(c, k + 1, failAt) :
                             c \in {ResetStep(cr, k, failAt)}} : TRUE

\* reset writing through the cache as the caller left it
reset_through_cache(cr, failAt) == ResetSteps(cr, 1, failAt)

reset(cr, failAt) ==
    LET done == ResetSteps([cr EXCEPT !.cache_settings = FALSE], 1, failAt)
    IN IF IsOk(done)
       THEN [done EXCEPT !.cache_settings = cr.cache_settings]
       ELSE done

set_ard_time(cr, delay, failAt) ==
    IF delay <= ArdMaxMs
    THEN LET steps == (delay % U16Modulus) \div ArdStepMs
         IN IF steps - 1 < 0 /\ cr.overflow_checks
            THEN [cr EXCEPT !.res = "Panic"]
            ELSE WriteControl(cr, SetRadioArd, (steps - 1) % U16Modulus, <<>>, failAt)
    ELSE [cr EXCEPT !.res = "InvalidArgument"]

\* device_handle.write_bulk(0x01, data, 1 s)?
WriteBulk(cr, data, failAt) ==
    LET ok == (Len(cr.log) + 1) # failAt
    IN [cr EXCEPT
          !.log = Append(@, [ep |-> "bulk_out", request |-> 0, value |-> 0,
                             data |-> data, ok |-> ok]),
          !.res = IF ok THEN "Ok" ELSE "UsbError"]

\* device_handle.read_bulk(0x81, &mut received_data, 1 s)?  rx: the bytes the
\* dongle answers with
ReadBulk(cr, rx, failAt) ==
    LET ok == (Len(cr.log) + 1) # failAt
    IN [cr EXCEPT
          !.log = Append(@, [ep |-> "bulk_in", request |-> 0, value |-> 0,
                             data |-> rx, ok |-> ok]),
          !.res = IF ok THEN "Ok" ELSE "UsbError"]

\* received_data after the read: [0u8; 33] with the bytes read at its start
ReceivedData(rx) == [i \in 1..RxBufLen |-> IF i <= Len(rx) THEN rx[i] ELSE 0]

\* the copy into the caller's buffer (indices here start at 1)
CopyAck(ack_data, received_data) ==
    IF Len(ack_data) <= AckMax
    THEN [i \in 1..Len(ack_data) |-> received_data[i + 1]]
    ELSE [i \in 1..Len(ack_data) |->
             IF i <= AckMax THEN received_data[i + 1] ELSE ack_data[i]]

\* the retry count taken from the low nibble
AckRetry_low_nibble(status) == BitAnd(status, 15)

\* the status byte's fields
AckReceived(status) == BitAnd(status, 1) # 0
AckPowerDetector(status) == BitAnd(status, 2) # 0
AckRetry(status) == BitAnd(status, 240) \div 16

\* Ok(Ack { ..., length: received - 1 }), received being a usize
MakeAck(cr, received_data, received) ==
    IF received - 1 < 0 /\ cr.overflow_checks
    THEN [cr EXCEPT !.res = "Panic"]
    ELSE [cr EXCEPT !.ack = [received |-> AckReceived(received_data[1]),
                             power_detector |-> AckPowerDetector(received_data[1]),
                             retry |-> AckRetry(received_data[1]),
                             length |-> (received - 1) % UsizeModulus]]

send_packet(cr, data, ack_data, rx, failAt) ==
    LET c1 == WriteBulk([cr EXCEPT !.ack_data = ack_data], data, failAt)
        c2 == IF IsOk(c1) THEN ReadBulk(c1, rx, failAt) ELSE c1
        received_data == ReceivedData(rx)
        c3 == IF IsOk(c2)
              THEN [c2 EXCEPT !.ack_data = CopyAck(ack_data, received_data)]
              ELSE c2
    IN IF IsOk(c3) THEN MakeAck(c3, received_data, Len(rx)) ELSE c3

\* the loop body sending the probe before changing the channel
ScanProbe_send_first(cr, ch, packet, rx, failAt) ==
    LET c1 == send_packet(cr, packet, cr.ack_data, rx, failAt)
        c2 == IF IsOk(c1) THEN set_channel(c1, ch, failAt) ELSE c1
    IN IF IsOk(c2) /\ c2.ack.received
       THEN [c2 EXCEPT !.result = Append(@, ch)]
       ELSE c2

\* the body of scan_channels' loop for channel ch
ScanProbe(cr, ch, packet, rx, failAt) ==
    LET c1 == set_channel(cr, ch, failAt)
        c2 == IF IsOk(c1)
              THEN send_packet(c1, packet, c1.ack_data, rx, failAt)
              ELSE c1
    IN IF IsOk(c2) /\ c2.ack.received
       THEN [c2 EXCEPT !.result = Append(@, ch)]
       ELSE c2

\* for ch in start.0..stop.0 + 1, from ch on; resp[ch] is the frame the
\* dongle answers the probe on channel ch with
RECURSIVE ScanLoop(_, _, _, _, _, _)
ScanLoop(cr, ch, stop, packet, resp, failAt) ==
    IF ch > stop \/ ~IsOk(cr) THEN cr
    ELSE ScanLoop(ScanProbe(cr, ch, packet, resp[ch], failAt),
                  ch + 1, stop, packet, resp, failAt)

scan_channels(cr, start, stop, packet, resp, failAt) ==
    LET c0 == [cr EXCEPT !.ack_data = [i \in 1..32 |-> 0], !.result = <<>>]
        c1 == ScanLoop(c0, start, stop, packet, resp, failAt)
    IN IF IsOk(c1) THEN c1 ELSE [c1 EXCEPT !.result = <<>>]

launch_bootloader(cr, failAt) ==
    WriteControl(cr, LaunchBootloader, 0, <<>>, failAt)

----------------------------------------------------------------------------
(* Discovery.  A device of the USB device list is a record: radio (vendor  *)
(* and product id are 0x1915 and 0x7777), opens (device.open() succeeds),  *)
(* languages (read_languages returns a list that is not empty), serial and *)
(* version (major, minor, sub_minor).  An Option is a sequence of 0 or 1   *)
(* values.                                                                 *)

\* get_serial(device_desc, handle)
get_serial(d) ==
    IF d.languages
    THEN [res |-> "Ok", serial |-> <<d.serial>>]
    ELSE [res |-> "NotFound", serial |-> <<>>]

\* the loop of find_crazyradio from device i on, n matching devices passed
RECURSIVE FindFrom(_, _, _, _, _)
FindFrom(bus, i, n, nth, serial) ==
    IF i > Len(bus) THEN [res |-> "NotFound", dev |-> <<>>]
    ELSE IF ~bus[i].radio THEN FindFrom(bus, i + 1, n, nth, serial)
    ELSE IF ~bus[i].opens THEN [res |-> "UsbError", dev |-> <<>>]
    ELSE IF nth = <<>> \/ nth = <<n>>
         THEN IF serial = <<>> THEN [res |-> "Ok", dev |-> <<i>>]
              ELSE LET s == get_serial(bus[i])
                   IN IF s.res # "Ok" THEN [res |-> s.res, dev |-> <<>>]
                      ELSE IF serial = s.serial THEN [res |-> "Ok", dev |-> <<i>>]
                      ELSE FindFrom(bus, i + 1, n + 1, nth, serial)
         ELSE FindFrom(bus, i + 1, n + 1, nth, serial)

find_crazyradio(bus, nth, serial) == FindFrom(bus, 1, 0, nth, serial)

\* the loop of list_crazyradio_serials from device i on
RECURSIVE ListFrom(_, _, _)
ListFrom(bus, i, serials) ==
    IF i > Len(bus) THEN [res |-> "Ok", serials |-> serials]
    ELSE IF ~bus[i].radio THEN ListFrom(bus, i + 1, serials)
    ELSE IF ~bus[i].opens THEN [res |-> "UsbError", serials |-> <<>>]
    ELSE IF bus[i].languages
         THEN ListFrom(bus, i + 1, Append(serials, bus[i].serial))
         ELSE ListFrom(bus, i + 1, serials)

list_crazyradio_serials(bus) == ListFrom(bus, 1, <<>>)

list_serials(bus) == list_crazyradio_serials(bus)

\* version.major() + version.minor() / 10.0 + version.sub_minor() / 100.0
\* < 0.5, in hundredths: the f64 comparison and this one agree for every
\* major of 0..99 and every minor and sub_minor of 0..15
VersionBelowMinimum(v) ==
    100 * v[1] + 10 * v[2] + v[3] < MinVersionHundredths

\* open_generic(nth, serial) on the device list bus; cr carries the
\* registers of the dongle.  dev is the device find_crazyradio selected.
open_generic(cr, bus, nth, serial, failAt) ==
    LET f == find_crazyradio(bus, nth, serial)
    IN IF f.res # "Ok"
       THEN [res |-> f.res, dev |-> <<>>, cr |-> cr]
       ELSE IF VersionBelowMinimum(bus[f.dev[1]].version)
       THEN [res |-> "DongleVersionNotSupported", dev |-> f.dev, cr |-> cr]
       ELSE LET built == [cr EXCEPT !.cache_settings = TRUE,
                                    !.channel = from_number(2).ch[1],
                                    !.address = DefaultAddress,
                                    !.datarate = Dr2M]
                done == reset(built, failAt)
            IN [res |-> done.res, dev |-> f.dev, cr |-> done]

open_nth(cr, bus, nth, failAt) == open_generic(cr, bus, <<nth>>, <<>>, failAt)

open_first(cr, bus, failAt) == open_nth(cr, bus, 0, failAt)

open_by_serial(cr, bus, serial, failAt) ==
    open_generic(cr, bus, <<>>, <<serial>>, failAt)

----------------------------------------------------------------------------
(* State *)

BootRegisters ==
    [channel |-> 2, address |-> DefaultAddress, datarate |-> Dr2M,
     power |-> P0dBm, ard |-> BitOr(128, 32), arc |-> 3, ack_enable |-> 1,
     cont_carrier |-> 0, bootloader |-> FALSE]

NoAck == [received |-> FALSE, power_detector |-> FALSE, retry |-> 0, length |-> 0]

NoCall == [op |-> "none", args |-> <<>>, res |-> "Ok", ret |-> <<>>]

\* no *_async call was made
NoBridge == [caller |-> "none", worker |-> "none", produced |-> <<>>,
             slot |-> <<>>, received |-> <<>>]

\* the driver record of the current state, entering a call
Self ==
    [cache_settings |-> cache_settings, channel |-> channel,
     address |-> address, datarate |-> datarate, dongle |-> dongle,
     overflow_checks |-> overflow_checks,
     log |-> <<>>, res |-> "Ok", ack |-> NoAck, ack_data |-> <<>>,
     result |-> <<>>]

\* launch_bootloader borrowing the instance like every other method
ConsumesNothing(op) == FALSE

\* the methods that take self by value: the caller's instance is moved into
\* the call and is gone when it returns, whatever it returns
Consumes(op) == op = "launch_bootloader"

\* the state after a call that ended with driver record cr
Returns(cr, op, args, ret) ==
    \E c \in {cr} :
        /\ cache_settings' = c.cache_settings
        /\ channel' = c.channel
        /\ address' = c.address
        /\ datarate' = c.datarate
        /\ dongle' = c.dongle
        /\ xfers' = c.log
        /\ last' = [op |-> op, args |-> args, res |-> c.res, ret |-> ret]
        /\ instance' = IF c.res = "Panic" THEN "unwound"
                       ELSE IF Consumes(op) THEN "consumed"
                       ELSE instance
        /\ UNCHANGED <<overflow_checks, arg, bridge>>

\* what open_generic puts into the instance, and the registers a successful
\* reset leaves in the dongle
Opened ==
    /\ cache_settings = TRUE
    /\ channel = 2
    /\ address = DefaultAddress
    /\ datarate = Dr2M
    /\ dongle = BootRegisters
    /\ instance = "open"
    /\ overflow_checks \in BOOLEAN
    /\ last = NoCall
    /\ xfers = <<>>
    /\ bridge = NoBridge

\* Crazyradio::open_*: the instance as open_generic returns it after a
\* successful reset
Init == Opened /\ arg = <<>>

----------------------------------------------------------------------------
(* Actions *)

SetCacheSettings ==
    \E b \in BOOLEAN :
        /\ instance = "open"
        /\ Returns([Self EXCEPT !.cache_settings = b], "set_cache_settings", b, <<>>)

SetChannel ==
    \E ch \in Channels, failAt \in 0..1 :
        /\ instance = "open"
        /\ Returns(set_channel(Self, ch, failAt), "set_channel", ch, <<>>)

SetDatarate ==
    \E dr \in Datarates, failAt \in 0..1 :
        /\ instance = "open"
        /\ Returns(set_datarate(Self, dr, failAt), "set_datarate", dr, <<>>)

SetAddress ==
    \E addr \in Addresses, failAt \in 0..1 :
        /\ instance = "open"
        /\ Returns(set_address(Self, addr, failAt), "set_address", addr, <<>>)

Reset ==
    \E failAt \in 0..8 :
        /\ instance = "open"
        /\ Returns(reset(Self, failAt), "reset", <<>>, <<>>)

SetArdTime ==
    \E delay \in Delays, failAt \in 0..1 :
        /\ instance = "open"
        /\ Returns(set_ard_time(Self, delay, failAt), "set_ard_time", delay, <<>>)

\* send_packet(data, ack_data) with an ack buffer of n bytes, answered by frame rx
SendPacketWith(data, n, rx, failAt) ==
    /\ instance = "open"
    /\ \E cr \in {send_packet(Self, data, FreshBuffer(n), rx, failAt)} :
          Returns(cr, "send_packet", [n |-> n, rx |-> rx],
                  [ack |-> cr.ack, ack_data |-> cr.ack_data])

SendPacket ==
    \E data \in Packets, rx \in UniformFrames, failAt \in 0..2 :
        SendPacketWith(data, AckMax, rx, failAt)

\* scan_channels(start, stop, packet), the probe on channel ch answered by resp[ch]
ScanChannelsWith(start, stop, packet, resp, failAt) ==
    /\ instance = "open"
    /\ \E cr \in {scan_channels(Self, start, stop, packet, resp, failAt)} :
          Returns(cr, "scan_channels", [start |-> start, stop |-> stop], cr.result)

\* the number of transfers a scan of start..stop attempts at most
ScanXfers(start, stop) == IF start <= stop THEN 3 * (stop - start + 1) ELSE 0

\* a scan in which every probed channel answers alike
ScanChannels ==
    \E start \in Channels, stop \in Channels, packet \in Packets, rx \in UniformFrames :
      \E failAt \in 0..ScanXfers(start, stop) :
        ScanChannelsWith(start, stop, packet, [c \in start..stop |-> rx], failAt)

\* launch_bootloader(self): the instance is moved into the call
LaunchBootloaderCall ==
    \E failAt \in 0..1 :
        /\ instance = "open"
        /\ Returns(launch_bootloader(Self, failAt), "launch_bootloader", <<>>, <<>>)

Next ==
    \/ SetCacheSettings
    \/ SetChannel
    \/ SetDatarate
    \/ SetAddress
    \/ Reset
    \/ SendPacket
    \/ ScanChannels
    \/ LaunchBootloaderCall

Spec == Init /\ [][Next]_vars

----------------------------------------------------------------------------
(* set_ard_time, called on an opened instance *)

NextArd == SetArdTime

SpecArd == Init /\ [][NextArd]_vars

----------------------------------------------------------------------------
(* send_packet on an opened instance, for every status byte, every length *)
(* of the inbound frame and every ack buffer length                       *)

SendFrames ==
    {Frame(b, 1) : b \in 0..255} \cup {Frame(81, len) : len \in 0..RxBufLen}

InitSend == Opened /\ arg \in [n : 0..MaxBuf, rx : SendFrames]

SendPacketDrawn ==
    /\ last.op = "none"
    /\ \E data \in Packets, failAt \in 0..2 :
          SendPacketWith(data, arg.n, arg.rx, failAt)

NextSend == SendPacketDrawn

SpecSend == InitSend /\ [][NextSend]_vars

----------------------------------------------------------------------------
(* scan_channels from every driver state, for every range, every answer *)
(* of every probed channel and every failing transfer                   *)

ScanInputs ==
    UNION {[start : {s}, stop : {t}, resp : [s..t -> ProbeFrames],
            failAt : 0..ScanXfers(s, t)] : s \in Channels, t \in Channels}

\* the driver states set_channel and set_cache_settings lead to
InitScan ==
    /\ cache_settings \in BOOLEAN
    /\ channel \in Channels
    /\ address = DefaultAddress
    /\ datarate = Dr2M
    /\ dongle = [BootRegisters EXCEPT !.channel = channel]
    /\ instance = "open"
    /\ overflow_checks \in BOOLEAN
    /\ last = NoCall
    /\ xfers = <<>>
    /\ bridge = NoBridge
    /\ arg \in ScanInputs

ScanChannelsDrawn ==
    /\ last.op = "none"
    /\ \E packet \in Packets :
          ScanChannelsWith(arg.start, arg.stop, packet, arg.resp, arg.failAt)

NextScan == ScanChannelsDrawn

SpecScan == InitScan /\ [][NextScan]_vars

----------------------------------------------------------------------------
(* one call of a setter that is not cached, repeated, for every argument *)

NBytes == 0..U8Max
Arcs == 0..MaxArc \cup {U16Modulus + 3}
SetterDelays == Delays \cup {U16Modulus + ArdStepMs}

SetterCalls ==
    [op : {"set_power"}, v : Powers]
        \cup [op : {"set_ard_time"}, v : SetterDelays]
        \cup [op : {"set_ard_bytes"}, v : NBytes]
        \cup [op : {"set_arc"}, v : Arcs]
        \cup [op : {"set_ack_enable", "set_cont_carrier"}, v : BOOLEAN]

\* an opened instance, caching enabled or disabled by set_cache_settings
InitSetter ==
    /\ cache_settings \in BOOLEAN
    /\ channel = 2
    /\ address = DefaultAddress
    /\ datarate = Dr2M
    /\ dongle = BootRegisters
    /\ instance = "open"
    /\ overflow_checks \in BOOLEAN
    /\ last = NoCall
    /\ xfers = <<>>
    /\ bridge = NoBridge
    /\ arg \in SetterCalls

SetPower ==
    \E failAt \in 0..1 :
        /\ instance = "open"
        /\ arg.op = "set_power"
        /\ Returns(set_power(Self, arg.v, failAt), "set_power", arg.v, <<>>)

SetArdTimeDrawn ==
    \E failAt \in 0..1 :
        /\ instance = "open"
        /\ arg.op = "set_ard_time"
        /\ Returns(set_ard_time(Self, arg.v, failAt), "set_ard_time", arg.v, <<>>)

SetArdBytes ==
    \E failAt \in 0..1 :
        /\ instance = "open"
        /\ arg.op = "set_ard_bytes"
        /\ Returns(set_ard_bytes(Self, arg.v, failAt), "set_ard_bytes", arg.v, <<>>)

SetArc ==
    \E failAt \in 0..1 :
        /\ instance = "open"
        /\ arg.op = "set_arc"
        /\ Returns(set_arc(Self, arg.v, failAt), "set_arc", arg.v, <<>>)

SetAckEnable ==
    \E failAt \in 0..1 :
        /\ instance = "open"
        /\ arg.op = "set_ack_enable"
        /\ Returns(set_ack_enable(Self, arg.v, failAt), "set_ack_enable", arg.v, <<>>)

SetContCarrierCall ==
    \E failAt \in 0..1 :
        /\ instance = "open"
        /\ arg.op = "set_cont_carrier"
        /\ Returns(set_cont_carrier(Self, arg.v, failAt), "set_cont_carrier", arg.v, <<>>)

NextSetter ==
    \/ SetPower
    \/ SetArdTimeDrawn
    \/ SetArdBytes
    \/ SetArc
    \/ SetAckEnable
    \/ SetContCarrierCall

SpecSetter == InitSetter /\ [][NextSetter]_vars

----------------------------------------------------------------------------
(* a Channel made from every number, then handed to set_channel or to *)
(* scan_channels                                                       *)

\* the numbers a caller may hand to from_number (u8) and the numbers a
\* document may hold
RawNumbers == 0..U8Max
DocNumbers == 0..(U8Max + 1)

ChannelInputs ==
    [via : {"from_number"}, n : RawNumbers, span : 0..1]
        \cup [via : {"deserialize"}, n : DocNumbers, span : 0..1]

InitChan == Opened /\ arg \in ChannelInputs

\* the Channel values the caller obtained
MadeChannel == last.op \in {"from_number", "deserialize"} /\ last.res = "Ok"

FromNumber ==
    /\ last.op = "none"
    /\ arg.via = "from_number"
    /\ \E r \in {from_number(arg.n)} :
          Returns([Self EXCEPT !.res = r.res], "from_number", arg.n, r.ch)

Deserialize ==
    /\ last.op = "none"
    /\ arg.via = "deserialize"
    /\ \E r \in {deserialize(arg.n)} :
          Returns([Self EXCEPT !.res = r.res], "deserialize", arg.n, r.ch)

SetChannelMade ==
    /\ instance = "open"
    /\ MadeChannel
    /\ \E failAt \in 0..1 :
          Returns(set_channel(Self, last.ret[1], failAt), "set_channel",
                  last.ret[1], <<>>)

\* a scan from the channel made to the channel span above it, when that
\* number makes a Channel too
ScanChannelsMade ==
    /\ MadeChannel
    /\ from_number(arg.n + arg.span).res = "Ok"
    /\ \E stop \in {from_number(arg.n + arg.span).ch[1]},
          packet \in Packets, rx \in UniformFrames :
         \E failAt \in 0..ScanXfers(last.ret[1], stop) :
            ScanChannelsWith(last.ret[1], stop, packet,
                             [c \in last.ret[1]..stop |-> rx], failAt)

NextChan ==
    \/ FromNumber
    \/ Deserialize
    \/ SetChannelMade
    \/ ScanChannelsMade

SpecChan == InitChan /\ [][NextChan]_vars

----------------------------------------------------------------------------
(* reset, from every driver state and every content of the registers *)

\* registers as earlier calls, or an earlier owner of the dongle, left them
StaleRegisters ==
    [channel : {2, 0}, address : Addresses, datarate : {Dr2M, Dr250K},
     power : {P0dBm, Pm18dBm}, ard : {BitOr(128, 32), 0}, arc : {3, 15},
     ack_enable : {1, 0}, cont_carrier : {0, 1}, bootloader : {FALSE}]

\* the instance open_generic has built when it calls reset: the cache holds
\* the boot values whatever the registers hold
Constructed ==
    [cache_settings : {TRUE}, channel : {2}, address : {DefaultAddress},
     datarate : {Dr2M}, dongle : StaleRegisters]

\* an instance in use: the cache holds what was written last
InUse ==
    {[cache_settings |-> b, channel |-> d.channel, address |-> d.address,
      datarate |-> d.datarate, dongle |-> d] :
        b \in BOOLEAN, d \in StaleRegisters}

ResetInputs == Constructed \cup InUse

InitReset ==
    /\ arg \in ResetInputs
    /\ cache_settings = arg.cache_settings
    /\ channel = arg.channel
    /\ address = arg.address
    /\ datarate = arg.datarate
    /\ dongle = arg.dongle
    /\ instance = "open"
    /\ overflow_checks \in BOOLEAN
    /\ last = NoCall
    /\ xfers = <<>>
    /\ bridge = NoBridge

ResetDrawn ==
    /\ last.op = "none"
    /\ Reset

NextReset == ResetDrawn

SpecReset == InitReset /\ [][NextReset]_vars

----------------------------------------------------------------------------
(* open_first, open_nth, open_by_serial and list_serials, for every device *)
(* list and every device version                                           *)

CurrentVersion == <<0, 5, 0>>

\* a device with another identity, two radios with a serial number, a radio
\* without string descriptors, a radio that cannot be opened
Devices ==
    {[radio |-> FALSE, opens |-> TRUE, languages |-> TRUE, serial |-> "X",
      version |-> CurrentVersion],
     [radio |-> TRUE, opens |-> TRUE, languages |-> TRUE, serial |-> "A",
      version |-> CurrentVersion],
     [radio |-> TRUE, opens |-> TRUE, languages |-> TRUE, serial |-> "B",
      version |-> CurrentVersion],
     [radio |-> TRUE, opens |-> TRUE, languages |-> FALSE, serial |-> "",
      version |-> CurrentVersion],
     [radio |-> TRUE, opens |-> FALSE, languages |-> TRUE, serial |-> "A",
      version |-> CurrentVersion]}

Buses == UNION {[1..k -> Devices] : k \in 0..MaxBus}

Versions == (0..MaxMajor) \X (0..VersionDigitMax) \X (0..VersionDigitMax)

Serials == {"A", "B", "C"}

\* the calls of the discovery entry points
DiscoveryCalls ==
    [entry : {"open_first", "list_serials"}, nth : {0}, serial : {""}]
        \cup [entry : {"open_nth"}, nth : 0..MaxBus, serial : {""}]
        \cup [entry : {"open_by_serial"}, nth : {0}, serial : Serials]

\* every call on every device list of current radios, and open_first on
\* one radio of every version
OpenInputs ==
    {[call |-> c, bus |-> b] : c \in DiscoveryCalls, b \in Buses}
        \cup {[call |-> [entry |-> "open_first", nth |-> 0, serial |-> ""],
               bus |-> <<[radio |-> TRUE, opens |-> TRUE, languages |-> TRUE,
                          serial |-> "A", version |-> v]>>] : v \in Versions}

\* no instance yet; the registers are as an earlier owner left them
NotOpened ==
    /\ cache_settings = FALSE
    /\ channel = 0
    /\ address = <<1, 2, 3, 4, 5>>
    /\ datarate = Dr250K
    /\ dongle = [channel |-> 0, address |-> <<1, 2, 3, 4, 5>>,
                 datarate |-> Dr250K, power |-> Pm18dBm, ard |-> 0, arc |-> 15,
                 ack_enable |-> 0, cont_carrier |-> 1, bootloader |-> FALSE]
    /\ instance = "none"
    /\ overflow_checks \in BOOLEAN
    /\ last = NoCall
    /\ xfers = <<>>
    /\ bridge = NoBridge

InitOpen == NotOpened /\ arg \in OpenInputs

\* the state after an open_* call that ended with r: Ok(cr) gives the caller
\* the instance; an error gives none, the transfers issued stay issued
Opens(r, op, args) ==
    /\ instance' = IF r.res = "Ok" THEN "open" ELSE "none"
    /\ cache_settings' = IF r.res = "Ok" THEN r.cr.cache_settings ELSE cache_settings
    /\ channel' = IF r.res = "Ok" THEN r.cr.channel ELSE channel
    /\ address' = IF r.res = "Ok" THEN r.cr.address ELSE address
    /\ datarate' = IF r.res = "Ok" THEN r.cr.datarate ELSE datarate
    /\ dongle' = r.cr.dongle
    /\ xfers' = r.cr.log
    /\ last' = [op |-> op, args |-> args, res |-> r.res, ret |-> r.dev]
    /\ UNCHANGED <<overflow_checks, arg, bridge>>

OpenFirst ==
    /\ instance = "none"
    /\ last.op = "none"
    /\ arg.call.entry = "open_first"
    /\ \E failAt \in 0..8 :
          \E r \in {open_first(Self, arg.bus, failAt)} :
              Opens(r, "open_first", <<>>)

OpenNth ==
    /\ instance = "none"
    /\ last.op = "none"
    /\ arg.call.entry = "open_nth"
    /\ \E failAt \in 0..8 :
          \E r \in {open_nth(Self, arg.bus, arg.call.nth, failAt)} :
              Opens(r, "open_nth", arg.call.nth)

OpenBySerial ==
    /\ instance = "none"
    /\ last.op = "none"
    /\ arg.call.entry = "open_by_serial"
    /\ \E failAt \in 0..8 :
          \E r \in {open_by_serial(Self, arg.bus, arg.call.serial, failAt)} :
              Opens(r, "open_by_serial", arg.call.serial)

ListSerials ==
    /\ instance = "none"
    /\ last.op = "none"
    /\ arg.call.entry = "list_serials"
    /\ \E r \in {list_serials(arg.bus)} :
          /\ last' = [op |-> "list_serials", args |-> <<>>, res |-> r.res,
                      ret |-> r.serials]
          /\ UNCHANGED <<cache_settings, channel, address, datarate, dongle,
                         instance, overflow_checks, xfers, arg, bridge>>

NextOpen ==
    \/ OpenFirst
    \/ OpenNth
    \/ OpenBySerial
    \/ ListSerials

SpecOpen == InitOpen /\ [][NextOpen]_vars

----------------------------------------------------------------------------
(* The *_async entry points.  The future does nothing until it is polled;  *)
(* its first poll makes the zero-capacity channel, spawns the worker       *)
(* thread and starts to wait on recv_async.  The worker runs the blocking  *)
(* call and sends its result.  caller: "none", "created" (future made),    *)
(* "awaiting", "received", "dropped".  worker: "none", "spawned",          *)
(* "calling", "sending", "done".                                           *)

\* every call on the device lists of at most one device
AsyncInputs ==
    {[call |-> c, bus |-> b] :
        c \in DiscoveryCalls, b \in {<<>>} \cup [1..1 -> Devices]}

InitAsync == NotOpened /\ arg \in AsyncInputs

\* a send that waits for a receiver and never notices that it is gone
SendReturns_to_receiver_only(b) == b.caller = "awaiting"

\* tx.send(value) on the zero-capacity channel returns once a receiver has
\* taken the value, or once every receiver is dropped
SendReturns(b) == b.caller \in {"awaiting", "dropped"}

\* Self::open_first(), Self::open_nth(nth), Self::open_by_serial(&serial)
\* or Self::list_serials(), as the worker calls it
BlockingCall(call, bus, failAt) ==
    CASE call.entry = "open_first" -> open_first(Self, bus, failAt)
      [] call.entry = "open_nth" -> open_nth(Self, bus, call.nth, failAt)
      [] call.entry = "open_by_serial" ->
            open_by_serial(Self, bus, call.serial, failAt)
      [] call.entry = "list_serials" ->
            [res |-> list_serials(bus).res, dev |-> list_serials(bus).serials,
             cr |-> Self]

\* the caller calls the async fn: a future, nothing has run
AsyncCall ==
    /\ bridge.caller = "none"
    /\ bridge' = [bridge EXCEPT !.caller = "created"]
    /\ UNCHANGED <<cache_settings, channel, address, datarate, dongle,
                   instance, overflow_checks, last, xfers, arg>>

\* the first poll: flume::bounded(0), std::thread::spawn, recv_async pending
AsyncPoll ==
    /\ bridge.caller = "created"
    /\ bridge' = [bridge EXCEPT !.caller = "awaiting", !.worker = "spawned"]
    /\ UNCHANGED <<cache_settings, channel, address, datarate, dongle,
                   instance, overflow_checks, last, xfers, arg>>

\* the worker thread enters the blocking call
WorkerStart ==
    /\ bridge.worker = "spawned"
    /\ bridge' = [bridge EXCEPT !.worker = "calling"]
    /\ UNCHANGED <<cache_settings, channel, address, datarate, dongle,
                   instance, overflow_checks, last, xfers, arg>>

\* the blocking call returns its Result; its transfers have reached the dongle
WorkerReturn ==
    /\ bridge.worker = "calling"
    /\ \E failAt \in 0..8 :
          \E r \in {BlockingCall(arg.call, arg.bus, failAt)} :
              /\ bridge' = [bridge EXCEPT !.worker = "sending", !.produced = <<r>>]
              /\ dongle' = r.cr.dongle
              /\ xfers' = r.cr.log
    /\ UNCHANGED <<cache_settings, channel, address, datarate, instance,
                   overflow_checks, last, arg>>

\* tx.send(result) returns: Ok when the awaiting receiver took the value,
\* Err when the receiver is dropped; the closure ends and so does the thread
WorkerSend ==
    /\ bridge.worker = "sending"
    /\ SendReturns(bridge)
    /\ bridge' = [bridge EXCEPT
                     !.worker = "done",
                     !.slot = IF bridge.caller = "awaiting" THEN bridge.produced
                              ELSE <<>>]
    /\ UNCHANGED <<cache_settings, channel, address, datarate, dongle,
                   instance, overflow_checks, last, xfers, arg>>

\* rx.recv_async().await.unwrap(): the woken future returns the value
AsyncReceive ==
    /\ bridge.caller = "awaiting"
    /\ bridge.slot # <<>>
    /\ \E r \in {bridge.slot[1]} :
          /\ bridge' = [bridge EXCEPT !.caller = "received", !.slot = <<>>,
                                      !.received = Append(@, r)]
          /\ last' = [op |-> arg.call.entry, args |-> <<>>, res |-> r.res,
                      ret |-> r.dev]
          /\ instance' = IF r.res = "Ok" /\ arg.call.entry # "list_serials"
                         THEN "open" ELSE instance
          /\ cache_settings' = r.cr.cache_settings
          /\ channel' = r.cr.channel
          /\ address' = r.cr.address
          /\ datarate' = r.cr.datarate
    /\ UNCHANGED <<dongle, overflow_checks, xfers, arg>>

\* the future is dropped before it completed; a value it holds goes with it
AsyncDrop ==
    /\ bridge.caller \in {"created", "awaiting"}
    /\ bridge' = [bridge EXCEPT !.caller = "dropped", !.slot = <<>>]
    /\ UNCHANGED <<cache_settings, channel, address, datarate, dongle,
                   instance, overflow_checks, last, xfers, arg>>

NextAsync ==
    \/ AsyncCall
    \/ AsyncPoll
    \/ WorkerStart
    \/ WorkerReturn
    \/ WorkerSend
    \/ AsyncReceive
    \/ AsyncDrop

\* the worker is a thread of its own and runs whenever it can; every
\* transfer of the blocking call has a timeout; a woken future that is not
\* dropped is polled
SpecAsync ==
    /\ InitAsync
    /\ [][NextAsync]_vars
    /\ WF_vars(WorkerStart)
    /\ WF_vars(WorkerReturn)
    /\ WF_vars(WorkerSend)
    /\ WF_vars(AsyncReceive)

----------------------------------------------------------------------------
(* Properties *)

CachedSetters == {"set_channel", "set_address", "set_datarate"}

\* the cached value a cached setter compares its argument with
CachedValue(op) ==
    CASE op = "set_channel"  -> channel
      [] op = "set_address"  -> address
      [] op = "set_datarate" -> datarate

AllOk(log) == \A i \in 1..Len(log) : log[i].ok

\* C1: the cached channel, address and datarate equal the last value
\* successfully written to the dongle, and a cached setter whose transfer
\* failed returned the error (its cache entry is then still the last
\* successful write, not the value asked for).
C1_CacheIsLastWrite ==
    /\ channel = dongle.channel
    /\ address = dongle.address
    /\ datarate = dongle.datarate
    /\ (last.op \in CachedSetters /\ ~AllOk(xfers)) => last.res = "UsbError"

\* a cached setter's transfer failed, and the cache does not hold the value
\* asked for
C1_Witness ==
    /\ last.op = "set_channel"
    /\ last.res = "UsbError"
    /\ Len(xfers) = 1
    /\ channel # last.args

\* C2: a cached setter called with caching enabled and the cached value
\* issues no transfer and returns Ok; called with caching disabled it issues
\* exactly one control transfer, whatever the cached value.
C2_CacheIdempotence ==
    [][last'.op \in CachedSetters =>
          /\ (cache_settings /\ CachedValue(last'.op) = last'.args)
                => (xfers' = <<>> /\ last'.res = "Ok")
          /\ ~cache_settings
                => (Len(xfers') = 1 /\ xfers'[1].ep = "control")]_vars

\* caching is enabled and set_channel, asked for the cached channel, issued
\* nothing
C2_Witness ==
    /\ last.op = "set_channel"
    /\ cache_settings
    /\ channel = last.args
    /\ xfers = <<>>
    /\ last.res = "Ok"

\* C5: once launch_bootloader has succeeded, the launch is the last call the
\* instance executed and its transfer the last one issued: the instance is
\* consumed and nothing runs on it afterwards.
C5_ConsumedAfterBootloader ==
    dongle.bootloader =>
        /\ instance = "consumed"
        /\ last.op = "launch_bootloader"
        /\ last.res = "Ok"
        /\ Len(xfers) = 1
        /\ xfers[1].request = LaunchBootloader
        /\ ~ENABLED Next

\* the bootloader was launched
C5_Witness == dongle.bootloader /\ instance = "consumed"

\* the channels start..stop in ascending order
ScanRange(start, stop) == [i \in 1..(stop - start + 1) |-> start + i - 1]

\* bit k of byte b
Bit(b, k) == (b \div (2 ^ k)) % 2

\* the channels of start..stop whose probe was answered by an ack with the
\* received flag set
AckedChannels(start, stop, resp) ==
    SelectSeq(ScanRange(start, stop),
              LAMBDA c : Len(resp[c]) >= 1 /\ Bit(resp[c][1], 0) = 1)

\* the control transfers and bulk sends of a log, without their outcome
Issued(log) ==
    LET out == SelectSeq(log, LAMBDA e : e.ep # "bulk_in")
    IN [i \in 1..Len(out) |->
           IF out[i].ep = "control"
           THEN <<"control", out[i].request, out[i].value>>
           ELSE <<"bulk_out">>]

\* one (set-channel, send) pair per channel of start..stop, ascending
RECURSIVE ChannelPairs(_, _)
ChannelPairs(start, stop) ==
    IF start > stop THEN <<>>
    ELSE <<<<"control", SetRadioChannel, start>>, <<"bulk_out">>>>
             \o ChannelPairs(start + 1, stop)

IsPrefix(s, t) == Len(s) <= Len(t) /\ \A i \in 1..Len(s) : s[i] = t[i]

\* C3: a scan whose transfers all succeed returns Ok with exactly the
\* channels of start..stop whose ack had received = true, in strictly
\* ascending order (the empty list when start > stop).
C3_ScanReturnsAckedChannels ==
    (last.op = "scan_channels" /\ AllOk(xfers)) =>
        /\ last.res = "Ok"
        /\ last.ret = AckedChannels(arg.start, arg.stop, arg.resp)
        /\ \A i \in 1..Len(last.ret) : \A j \in 1..Len(last.ret) :
              i < j => last.ret[i] < last.ret[j]

\* C4 as claimed: from every driver state, a scan of start <= stop whose
\* transfers all succeed and which returns has issued exactly one
\* (set-channel, send) pair per channel, ascending.
C4_ScanIssuesAllPairs ==
    (/\ last.op = "scan_channels"
     /\ arg.start <= arg.stop
     /\ AllOk(xfers)
     /\ last.res = "Ok") =>
        Issued(xfers) = ChannelPairs(arg.start, arg.stop)

\* C4, amended: the transfers a scan of start <= stop issues are, in order,
\* a prefix of one (set-channel, send) pair per channel, ascending, without
\* the set-channel transfer of the first channel when caching is enabled and
\* the cached channel is start; only the last transfer issued may have
\* failed; a scan that returns Ok has issued all of them, stop - start + 1
\* sends.
C4_ScanIssuesPairsThroughCache ==
    [][(last'.op = "scan_channels" /\ arg.start <= arg.stop) =>
          LET pairs == ChannelPairs(arg.start, arg.stop)
              expected == IF cache_settings /\ channel = arg.start
                          THEN Tail(pairs) ELSE pairs
              issued == Issued(xfers')
          IN /\ IsPrefix(issued, expected)
             /\ \A i \in 1..(Len(xfers') - 1) : xfers'[i].ok
             /\ last'.res = "Ok" =>
                   /\ issued = expected
                   /\ Len(SelectSeq(xfers', LAMBDA e : e.ep = "bulk_out"))
                         = arg.stop - arg.start + 1]_vars

\* a scan of several channels returned Ok and its first transfer was a send:
\* the set-channel transfer of the first channel was not issued
C4_Witness ==
    /\ last.op = "scan_channels"
    /\ last.res = "Ok"
    /\ arg.start < arg.stop
    /\ xfers[1].ep = "bulk_out"
    /\ Len(SelectSeq(xfers, LAMBDA e : e.ep = "bulk_out")) = arg.stop - arg.start + 1

\* C6: send_packet decodes the status byte b the dongle returned as
\* received = bit 0, power_detector = bit 1, retry = bits 4..7 (0..15);
\* 0b01010001 gives received, no power detector, retry 5.
C6_AckDecoding ==
    (last.op = "send_packet" /\ last.res = "Ok" /\ Len(arg.rx) >= 1) =>
        LET b == arg.rx[1]
            ack == last.ret.ack
        IN /\ ack.received = (Bit(b, 0) = 1)
           /\ ack.power_detector = (Bit(b, 1) = 1)
           /\ ack.retry = Bit(b, 4) + 2 * Bit(b, 5) + 4 * Bit(b, 6) + 8 * Bit(b, 7)
           /\ ack.retry \in 0..15
           /\ b = 81 => (ack.received /\ ~ack.power_detector /\ ack.retry = 5)

\* the dongle answered with status byte 0b01010001 and send_packet returned
C6_Witness ==
    /\ last.op = "send_packet"
    /\ last.res = "Ok"
    /\ Len(arg.rx) >= 1
    /\ arg.rx[1] = 81
    /\ last.ret.ack.retry = 5

\* C7: a successful send_packet returns Ack.length = bytes read - 1, a value
\* in 0..32, for every number of bytes read (0..33) and every buffer size.
C7_AckLength ==
    (last.op = "send_packet" /\ last.res = "Ok") =>
        /\ last.ret.ack.length = Len(arg.rx) - 1
        /\ last.ret.ack.length \in 0..AckMax

\* C8: after a successful send_packet with a buffer of n bytes, the first
\* min(n, Ack.length) bytes of the buffer are the first min(n, Ack.length)
\* bytes of the payload received, and the bytes from index 32 on are as the
\* caller left them.
C8_AckBufferCopy ==
    (last.op = "send_packet" /\ last.res = "Ok") =>
        LET buf == last.ret.ack_data
            payload == SubSeq(arg.rx, 2, Len(arg.rx))
            k == Min(arg.n, last.ret.ack.length)
        IN /\ Len(buf) = arg.n
           /\ k <= Len(payload)
           /\ \A i \in 1..k : buf[i] = payload[i]
           /\ \A i \in (AckMax + 1)..arg.n : buf[i] = FreshBuffer(arg.n)[i]

\* C9: set_ard_time accepts every delay of 0..4000 ms, rejects every longer
\* one with InvalidArgument, and of two accepted delays d1 <= d2 the value
\* written for d1 is at most the value written for d2.
C9_ArdMonotonic ==
    [][(last.op = "set_ard_time" /\ last'.op = "set_ard_time") =>
          /\ last'.args > ArdMaxMs => last'.res = "InvalidArgument"
          /\ (last.args <= last'.args /\ last'.args <= ArdMaxMs) =>
                /\ Len(xfers) = 1
                /\ Len(xfers') = 1
                /\ xfers[1].value <= xfers'[1].value]_vars

\* C10: for a delay of 0..4000 ms set_ard_time writes floor(delay / 250) - 1,
\* a value of 0..15 with bit 7 clear.
C10_ArdValue ==
    (last.op = "set_ard_time" /\ last.args <= ArdMaxMs) =>
        /\ Len(xfers) = 1
        /\ xfers[1].value = (last.args \div ArdStepMs) - 1
        /\ xfers[1].value \in 0..15
        /\ Bit(xfers[1].value, 7) = 0

\* C11: set_ard_bytes with nbytes of 0..32 issues one SetRadioArd control
\* transfer whose value is 128 + nbytes, bit 7 being set; with nbytes > 32 it
\* returns InvalidArgument; and bit 7 is clear in every value set_ard_time
\* writes, so the flag tells the two encodings apart.
C11_ArdBytesEncoding ==
    /\ (last.op = "set_ard_bytes" /\ last.args <= ArdMaxBytes) =>
          /\ Len(xfers) = 1
          /\ xfers[1].ep = "control"
          /\ xfers[1].request = SetRadioArd
          /\ xfers[1].value = ArdBytesFlag + last.args
          /\ Bit(xfers[1].value, 7) = 1
    /\ (last.op = "set_ard_bytes" /\ last.args > ArdMaxBytes) =>
          last.res = "InvalidArgument"
    /\ (last.op = "set_ard_time" /\ Len(xfers) = 1) =>
          Bit(xfers[1].value, 7) = 0

\* an argument outside the range its setter accepts
RangeViolation(op, v) ==
    \/ op = "set_arc" /\ v > ArcMax
    \/ op = "set_ard_bytes" /\ v > ArdMaxBytes
    \/ op = "set_ard_time" /\ v > ArdMaxMs

\* C12: set_arc, set_ard_bytes and set_ard_time called with an argument above
\* their range return InvalidArgument, attempt no transfer and leave the
\* dongle's registers and the driver's fields as they were; set_arc with a
\* count of 0..15 is accepted and writes the count unchanged.
C12_RangeViolation ==
    [][/\ RangeViolation(last'.op, last'.args) =>
             /\ last'.res = "InvalidArgument"
             /\ xfers' = <<>>
             /\ UNCHANGED <<dongle, cache_settings, channel, address,
                            datarate, instance>>
       /\ (last'.op = "set_arc" /\ last'.args <= ArcMax) =>
             /\ last'.res # "InvalidArgument"
             /\ Len(xfers') = 1
             /\ xfers'[1].request = SetRadioArc
             /\ xfers'[1].value = last'.args
             /\ last'.res = "Ok" => dongle'.arc = last'.args]_vars

\* set_arc was called with a count whose low 16 bits are in range, and
\* refused it without a transfer
C12_Witness ==
    /\ last.op = "set_arc"
    /\ last.args > U16Modulus
    /\ last.res = "InvalidArgument"
    /\ xfers = <<>>
    /\ dongle = BootRegisters

UncachedSetters ==
    {"set_power", "set_ard_time", "set_ard_bytes", "set_arc",
     "set_ack_enable", "set_cont_carrier"}

\* C15: set_power, set_ard_time, set_ard_bytes, set_arc, set_ack_enable and
\* set_cont_carrier called with an argument in range attempt exactly one
\* control transfer, whether caching is enabled or not and whether the
\* register already holds the value or not, and leave cache_settings and
\* the cached channel, address and datarate unchanged.
C15_UncachedAlwaysWrite ==
    [][(last'.op \in UncachedSetters /\ ~RangeViolation(last'.op, last'.args)) =>
          /\ Len(xfers') = 1
          /\ xfers'[1].ep = "control"
          /\ UNCHANGED <<cache_settings, channel, address, datarate>>]_vars

\* the largest channel number
ChannelMax == 125

\* C13: from_number and deserialization succeed for every number of 0..125
\* and fail for every number from 126 on (from_number with InvalidArgument),
\* so every Channel holds a number of 0..125: the cached channel, the
\* value of every set-channel transfer and every channel a scan returns
\* are in 0..125.
C13_ChannelRange ==
    /\ last.op \in {"from_number", "deserialize"} =>
          /\ last.res = "Ok" <=> last.args <= ChannelMax
          /\ last.res = "Ok" => last.ret = <<last.args>>
          /\ last.res # "Ok" => last.ret = <<>>
    /\ (last.op = "from_number" /\ last.args > ChannelMax) =>
          last.res = "InvalidArgument"
    /\ channel \in 0..ChannelMax
    /\ dongle.channel \in 0..ChannelMax
    /\ \A i \in 1..Len(xfers) :
          xfers[i].request = SetRadioChannel => xfers[i].value \in 0..ChannelMax
    /\ last.op = "scan_channels" =>
          \A i \in 1..Len(last.ret) : last.ret[i] \in 0..ChannelMax

\* a scan up to channel 125 returned channel 125
C13_Witness ==
    /\ last.op = "scan_channels"
    /\ last.res = "Ok"
    /\ Len(last.ret) >= 1
    /\ last.ret[Len(last.ret)] = ChannelMax
    /\ dongle.channel = ChannelMax

\* the eight boot-default writes: request, value, payload
BootWrites ==
    {<<SetDataRate, 2, <<>>>>, <<SetRadioChannel, 2, <<>>>>,
     <<SetContCarrier, 0, <<>>>>, <<SetRadioAddress, 0, <<231, 231, 231, 231, 231>>>>,
     <<SetRadioPower, 3, <<>>>>, <<SetRadioArc, 3, <<>>>>,
     <<SetRadioArd, 160, <<>>>>, <<AckEnable, 1, <<>>>>}

\* C14: a reset that returns Ok has issued the eight boot-default writes,
\* each once, whatever the cache held and whether caching was enabled, and
\* leaves the boot defaults in the dongle's registers and in the cached
\* channel, address and datarate; so does the reset open_generic runs on
\* the instance it has built.
C14_ResetWritesDefaults ==
    (last.op = "reset" /\ last.res = "Ok") =>
        /\ Len(xfers) = 8
        /\ \A i \in 1..Len(xfers) : xfers[i].ep = "control" /\ xfers[i].ok
        /\ {<<xfers[i].request, xfers[i].value, xfers[i].data>> :
                i \in 1..Len(xfers)} = BootWrites
        /\ dongle.channel = 2
        /\ dongle.address = <<231, 231, 231, 231, 231>>
        /\ dongle.datarate = Dr2M
        /\ dongle.power = P0dBm
        /\ dongle.arc = 3
        /\ dongle.ard = 160
        /\ dongle.ack_enable = 1
        /\ dongle.cont_carrier = 0
        /\ channel = 2
        /\ address = <<231, 231, 231, 231, 231>>
        /\ datarate = Dr2M

\* caching was enabled and the cache held the boot values already, the
\* other registers did not, and reset wrote all eight
C14_Witness ==
    /\ last.op = "reset"
    /\ last.res = "Ok"
    /\ arg.cache_settings
    /\ arg.channel = 2
    /\ arg.address = DefaultAddress
    /\ arg.datarate = Dr2M
    /\ arg.dongle.power # P0dBm
    /\ Len(xfers) = 8
    /\ dongle.power = P0dBm

\* the positions of the radios of a device list, ascending
Radios(bus) == SelectSeq([i \in 1..Len(bus) |-> i], LAMBDA i : bus[i].radio)

\* C16: when list_serials and open_nth(i) both succeed on a device list and
\* i is an index into the list returned, the device open_nth(i) selected has
\* the serial number list_serials()[i].
C16_ListOrderIsOpenOrder ==
    (/\ last.op = "open_nth"
     /\ last.res = "Ok"
     /\ list_serials(arg.bus).res = "Ok"
     /\ last.args < Len(list_serials(arg.bus).serials)) =>
        /\ arg.bus[last.ret[1]].languages
        /\ arg.bus[last.ret[1]].serial = list_serials(arg.bus).serials[last.args + 1]

\* no device of the list refuses to be opened
NoTransportFailure(bus) == \A i \in 1..Len(bus) : bus[i].opens

\* C17: on a device list without transport failures, open_nth(n) selects
\* the radio at ordinal n among the radios of the list, in list order, and
\* returns NotFound exactly when the list has at most n radios;
\* open_by_serial(s) selects a radio whose serial number is s and returns
\* NotFound exactly when the list has no such radio.
C17_OpenSelects ==
    NoTransportFailure(arg.bus) =>
        /\ last.op = "open_nth" =>
              LET radios == Radios(arg.bus)
              IN /\ last.res = "NotFound" <=> last.args >= Len(radios)
                 /\ last.args < Len(radios) => last.ret = <<radios[last.args + 1]>>
        /\ last.op = "open_by_serial" =>
              LET named == {i \in 1..Len(arg.bus) :
                               /\ arg.bus[i].radio
                               /\ arg.bus[i].languages
                               /\ arg.bus[i].serial = last.args}
              IN /\ last.res = "NotFound" <=> named = {}
                 /\ named # {} => (last.ret # <<>> /\ last.ret[1] \in named)

\* major.minor.sub_minor below 0.5.0
VersionBelowHalf(v) == v[1] = 0 /\ v[2] < 5

\* C18: an open_* call that located a device returns
\* DongleVersionNotSupported exactly when the version of the device is
\* below 0.5 in major.minor.sub_minor order; it has then issued no write
\* and the caller has no instance.
C18_VersionGate ==
    (last.op \in {"open_first", "open_nth", "open_by_serial"} /\ last.ret # <<>>) =>
        /\ last.res = "DongleVersionNotSupported"
              <=> VersionBelowHalf(arg.bus[last.ret[1]].version)
        /\ last.res = "DongleVersionNotSupported" =>
              (xfers = <<>> /\ instance = "none")

\* C19: an *_async entry point that has started runs the blocking call on a
\* worker thread.  The caller receives at most one value, and it is the
\* Result the blocking call produced; while the caller keeps awaiting it
\* does receive it.  Whenever the future is dropped (before, during or
\* after the blocking call) the call still completes and the worker
\* terminates instead of waiting at the hand-over; nothing is received then.
C19_AsyncBridge ==
    /\ [](/\ Len(bridge.received) <= 1
          /\ bridge.caller = "received" <=> Len(bridge.received) = 1
          /\ bridge.received # <<>> => bridge.received = bridge.produced
          /\ bridge.worker = "done" => bridge.produced # <<>>
          /\ bridge.slot # <<>> => bridge.slot = bridge.produced)
    /\ (bridge.worker = "spawned") ~> (bridge.worker = "done")
    /\ (bridge.caller = "awaiting") ~> (bridge.caller \in {"received", "dropped"})

\* the future was dropped, the blocking call was made all the same and the
\* worker has terminated; nobody received the reset dongle it opened
C19_Witness ==
    /\ bridge.caller = "dropped"
    /\ bridge.worker = "done"
    /\ bridge.produced # <<>>
    /\ bridge.produced[1].res = "Ok"
    /\ bridge.received = <<>>
    /\ Len(xfers) = 8

\* C20: for every delay d of 0..4000 ms, the step index v that set_ard_time
\* writes stands for a device delay of (v + 1) * 250 ms that is at least d.
C20_ArdStepCoversDelay ==
    (last.op = "set_ard_time" /\ last.args <= ArdMaxMs /\ Len(xfers) = 1) =>
        (xfers[1].value + 1) * ArdStepMs >= last.args

\* C21: after reset, called on an instance in use, cache_settings has the
\* value it had before the call, whether reset returned Ok or the error of
\* a write that failed.
C21_ResetRestoresCacheFlag ==
    (last.op = "reset" /\ arg \in InUse) =>
        cache_settings = arg.cache_settings

====
